---------------------------- MODULE Spec2Model ----------------------------
(***************************************************************************)
(* A model of expan.core.experiment.Experiment: construction of the        *)
(* experiment from a caller's table, the weight resolver, and the analysis *)
(* calls delta, sga and trend with the shared binned-delta engine.         *)
(*                                                                         *)
(* Tables are columnar: a row count and one value sequence per column.     *)
(* Python's reference semantics are kept by a small heap of tables         *)
(* (tables) addressed by identifiers: the caller's table, the              *)
(* experiment's own table, and the projected frame an analysis call hands  *)
(* to the engine.  KPI values are floats, modelled as exact rationals with *)
(* the IEEE specials inf and NaN.                                          *)
(***************************************************************************)
EXTENDS Integers, Sequences, FiniteSets, TLC

VARIABLES tables, input0, args, self, self0, pc, last, res

vars == <<tables, input0, args, self, self0, pc, last, res>>

(***************************************************************************)
(* Bounds of the model.                                                    *)
(***************************************************************************)
MaxRows == 3

(***************************************************************************)
(* Floats.  A value is n/d in lowest terms with d >= 0; d = 0 encodes the  *)
(* specials: 1/0 is +inf, -1/0 is -inf and 0/0 is NaN.                     *)
(***************************************************************************)
Abs(k) == IF k < 0 THEN -k ELSE k

Sign(k) == IF k < 0 THEN -1 ELSE IF k = 0 THEN 0 ELSE 1

\* the greatest common divisor of x >= 0 and y > 0
Gcd(x, y) == CHOOSE g \in 1..y : /\ x % g = 0 /\ y % g = 0
                                  /\ \A h \in (g + 1)..y : x % h # 0 \/ y % h # 0

Norm(n, d) ==
    IF d = 0 THEN [n |-> Sign(n), d |-> 0]
    ELSE LET s == IF d < 0 THEN -1 ELSE 1
             g == Gcd(Abs(n), Abs(d))
         IN  [n |-> (s * n) \div g, d |-> (s * d) \div g]

Float(k) == [n |-> k, d |-> 1]

NaN == [n |-> 0, d |-> 0]

IsNaN(x) == x.d = 0 /\ x.n = 0

FDiv(x, y) == Norm(x.n * y.d, x.d * y.n)

FMul(x, y) == Norm(x.n * y.n, x.d * y.d)

FAdd(x, y) ==
    IF x.d = 0 /\ y.d = 0
    THEN (IF x.n = y.n THEN x ELSE NaN)
    ELSE Norm(x.n * y.d + y.n * x.d, x.d * y.d)

(***************************************************************************)
(* Sequences helpers.                                                      *)
(***************************************************************************)
Range(s) == {s[i] : i \in DOMAIN s}

\* the positions of s, ascending
Positions(s) == [k \in DOMAIN s |-> k]

\* the elements of s at the positions I, in the order of s
Pick(s, I) ==
    LET idx == SelectSeq(Positions(s), LAMBDA k : k \in I)
    IN  [k \in DOMAIN idx |-> s[idx[k]]]

\* the distinct elements of s in the order of their first occurrence
\* (pandas Series.unique)
Unique(s) ==
    LET upto[k \in 0..Len(s)] ==
            IF k = 0 THEN <<>>
            ELSE LET prev == upto[k - 1]
                 IN  IF s[k] \in Range(prev) THEN prev ELSE Append(prev, s[k])
    IN  upto[Len(s)]

\* the concatenation of the sequences of ss (pd.concat, DataFrame.append)
Concat(ss) ==
    LET upto[k \in 0..Len(ss)] == IF k = 0 THEN <<>> ELSE upto[k - 1] \o ss[k]
    IN  upto[Len(ss)]

(***************************************************************************)
(* Formulas of derived KPIs: token sequences, a token being a KPI name     *)
(* (kpiNamePattern) or an arithmetic operator.                             *)
(***************************************************************************)
Operators == {"/", "+"}

kpiNamePattern(tok) == tok \notin Operators

\* re.findall(kpiNamePattern, formula)
FindNames(formula) == {formula[i] : i \in {j \in DOMAIN formula : kpiNamePattern(formula[j])}}

\* re.sub(kpiNamePattern + '/', '', formula): every name directly followed
\* by '/' is removed together with the '/'
ReSubNameSlash(formula) ==
    LET hit == {i \in DOMAIN formula :
                   /\ kpiNamePattern(formula[i])
                   /\ i < Len(formula)
                   /\ formula[i + 1] = "/"}
    IN  Pick(formula, DOMAIN formula \ (hit \cup {i + 1 : i \in hit}))

\* the mutant: the '/' and the name that follows it are removed instead
ReSubSlashName(formula) ==
    LET hit == {i \in DOMAIN formula :
                   /\ formula[i] = "/"
                   /\ i < Len(formula)
                   /\ kpiNamePattern(formula[i + 1])}
    IN  Pick(formula, DOMAIN formula \ (hit \cup {i + 1 : i \in hit}))

ReferenceOf(formula) == ReSubNameSlash(formula)

(***************************************************************************)
(* Tables.                                                                 *)
(***************************************************************************)
NoTable == [n |-> 0, c |-> [x \in {} |-> <<>>]]

Cols(t) == DOMAIN t.c

\* eval of a formula with every name replaced by its column as float, at
\* row i: '/' binds tighter than '+', both associate to the left.  The
\* tokens are read left to right, keeping the sum of the finished terms, the
\* term being built and the operator read last
EvalRow(formula, t, i) ==
    LET st[k \in 0..Len(formula)] ==
            IF k = 0 THEN [sum |-> Float(0), term |-> Float(0), op |-> "+"]
            ELSE LET prev == st[k - 1]
                     tok  == formula[k]
                 IN  IF ~kpiNamePattern(tok) THEN [prev EXCEPT !.op = tok]
                     ELSE IF prev.op = "/"
                     THEN [prev EXCEPT !.term = FDiv(prev.term, t.c[tok][i])]
                     ELSE [prev EXCEPT !.sum = FAdd(prev.sum, prev.term),
                                       !.term = t.c[tok][i]]
    IN  FAdd(st[Len(formula)].sum, st[Len(formula)].term)

EvalFormula(formula, t) == [i \in 1..t.n |-> EvalRow(formula, t, i)]

\* self.data.loc[:, name] = column
SetColumn(t, name, column) ==
    [n |-> t.n, c |-> [x \in Cols(t) \cup {name} |-> IF x = name THEN column ELSE t.c[x]]]

(***************************************************************************)
(* The caller's inputs: the table handed to the constructor and the        *)
(* constructor's arguments.                                                *)
(***************************************************************************)
TableIds == {"input", "data", "df"}

RawColumns == {"entity", "variant", "time_since_treatment", "a", "b"}

\* the raw KPI columns of a table, as functions of the row number: both
\* hold zeros, and b holds one where a does not
RawValue(col, i) == IF col = "a" THEN Float(i % 2) ELSE Float(i % 3)

\* the time column of a table of n rows, as a function of the row number:
\* ascending, descending, or alternating between two time points
TimePatterns == {"asc", "desc", "zig"}

TimeValue(p, n, i) ==
    CASE p = "asc"  -> i
      [] p = "desc" -> n + 1 - i
      [] OTHER      -> (i % 2) + 1

\* a column named like a derived KPI that the caller's table may already hold
CallerD1 == Float(7)

\* the columns the caller's table holds
ColumnChoices ==
    { RawColumns, RawColumns \cup {"d1"}, RawColumns \ {"variant"},
      RawColumns \ {"b"}, RawColumns \ {"time_since_treatment"} }

\* the variant columns of n rows: the control "A" anywhere, and of the two
\* other variants "B" is the one that shows up first
VariantColumns(n) ==
    {vs \in [1..n -> {"A", "B", "C"}] :
        \A i \in 1..n : vs[i] = "C" => \E j \in 1..(i - 1) : vs[j] = "B"}

MakeInput(n, vs, tp, cols) ==
    LET column(x) ==
            CASE x = "entity"               -> [i \in 1..n |-> i]
              [] x = "variant"              -> vs
              [] x = "time_since_treatment" -> [i \in 1..n |-> TimeValue(tp, n, i)]
              [] x = "d1"                   -> [i \in 1..n |-> CallerD1]
              [] OTHER                      -> [i \in 1..n |-> RawValue(x, i)]
    IN  [n |-> n, c |-> [x \in cols |-> column(x)]]

DerivedConfigs ==
    { <<>>,
      << [name |-> "d1", formula |-> <<"a", "/", "b">>] >>,
      << [name |-> "d1", formula |-> <<"a", "+", "b">>] >>,
      << [name |-> "d1", formula |-> <<"a", "/", "b">>],
         [name |-> "d2", formula |-> <<"d1", "/", "a">>] >> }

derivedKpiNames(derivedKpis) == [i \in DOMAIN derivedKpis |-> derivedKpis[i].name]

derivedKpiFormulas(derivedKpis) == [i \in DOMAIN derivedKpis |-> derivedKpis[i].formula]

MakeArgs(dk) ==
    [controlVariantName |-> "A",
     reportKpiNames     |-> <<"a">> \o derivedKpiNames(dk),
     derivedKpis        |-> dk]

(***************************************************************************)
(* The experiment object.                                                  *)
(***************************************************************************)
FieldNames == {"data", "reportKpiNames", "derivedKpis", "variantNames",
               "controlVariantName", "referenceKpis"}

NoReference == [x \in {} |-> <<>>]

\* the object before __init__ has assigned anything
NoObject ==
    [assigned           |-> {},
     data               |-> "none",
     reportKpiNames     |-> <<>>,
     derivedKpis        |-> <<>>,
     variantNames       |-> {},
     controlVariantName |-> "none",
     referenceKpis      |-> NoReference]

NoCall == [op |-> "none", raised |-> "none", args |-> "-"]

NoResult ==
    [rows |-> <<>>, entries |-> <<>>, warnings |-> {},
     binning |-> [kind |-> "none", bins |-> <<>>], workerCalls |-> 0]

\* what columns do we expect to find in the data frame?
requiredColumnNames(a) ==
    ((Range(a.reportKpiNames) \cup {"entity", "variant"})
        \ Range(derivedKpiNames(a.derivedKpis)))
    \cup UNION {FindNames(f) : f \in Range(derivedKpiFormulas(a.derivedKpis))}

MissingColumn(tabs, a) == \E c \in requiredColumnNames(a) : c \notin Cols(tabs["input"])

\* data.copy(): a new table object holding the same values
DataAlias(tabs) == [tables |-> tabs, ref |-> "input"]

DataCopy(tabs) == [tables |-> [tabs EXCEPT !["data"] = tabs["input"]], ref |-> "data"]

\* the assignments of the fields of the new object
AssignFields(tabs, a) ==
    LET cp == DataCopy(tabs)
    IN  [tables |-> cp.tables,
         self   |-> [assigned           |-> FieldNames,
                     data               |-> cp.ref,
                     reportKpiNames     |-> a.reportKpiNames,
                     derivedKpis        |-> a.derivedKpis,
                     variantNames       |-> Range(cp.tables[cp.ref].c["variant"]),
                     controlVariantName |-> a.controlVariantName,
                     referenceKpis      |-> NoReference],
         raised |-> "none"]

\* add derived KPIs to the data frame, in the order of their declaration
AddDerivedKpi(s, k) ==
    LET data == s.tables[s.self.data]
        refs == s.self.referenceKpis
    IN  [s EXCEPT
           !.tables[s.self.data] = SetColumn(data, k.name, EvalFormula(k.formula, data)),
           !.self.referenceKpis =
               [x \in DOMAIN refs \cup {k.name} |->
                   IF x = k.name THEN ReferenceOf(k.formula) ELSE refs[x]]]

AddDerivedKpis(s, derivedKpis) ==
    LET st[k \in 0..Len(derivedKpis)] ==
            IF k = 0 THEN s ELSE AddDerivedKpi(st[k - 1], derivedKpis[k])
    IN  st[Len(derivedKpis)]

\* the mutant: the table is copied and stored before the columns are checked
ExperimentInitLate(tabs, a) ==
    IF MissingColumn(tabs, a)
    THEN [tables |-> DataCopy(tabs).tables,
          self   |-> [NoObject EXCEPT !.assigned = {"data"}, !.data = DataCopy(tabs).ref],
          raised |-> "ValueError"]
    ELSE AddDerivedKpis(AssignFields(tabs, a), a.derivedKpis)

ExperimentInit(tabs, a) ==
    IF MissingColumn(tabs, a)
    THEN [tables |-> tabs, self |-> NoObject, raised |-> "ValueError"]
    ELSE AddDerivedKpis(AssignFields(tabs, a), a.derivedKpis)

(***************************************************************************)
(* Access to the stored data and the weight resolver.                      *)
(***************************************************************************)
\* the row numbers of t whose variant is v, in row order
RowsOf(t, v) == SelectSeq([k \in 1..t.n |-> k], LAMBDA k : t.c["variant"][k] = v)

\* self.data.reset_index().set_index('variant').loc[variant, name]: a
\* KeyError for an unknown column or a variant without rows, a scalar for a
\* variant with one row, a series otherwise
getKPIbyNameAndVariant(tabs, s, name, variant) ==
    LET t    == tabs[s.data]
        rows == RowsOf(t, variant)
    IN  IF name \notin Cols(t) \/ rows = <<>>
        THEN [raised |-> "KeyError", scalar |-> FALSE, values |-> <<>>]
        ELSE [raised |-> "none", scalar |-> (Len(rows) = 1),
              values |-> [i \in DOMAIN rows |-> t.c[name][rows[i]]]]

\* the column name a recorded reference spells: the remaining formula text
\* names a column only when it is a single name
ReferenceColumn(ref) == IF Len(ref) = 1 THEN ref[1] ELSE "<no such column>"

\* sum(x == 0) + np.isnan(x).sum()
CountZerosAndNans(x) == Cardinality({i \in DOMAIN x : x[i] = Float(0) \/ IsNaN(x[i])})

\* np.nansum
NanSum(x) ==
    LET upto[k \in 0..Len(x)] ==
            IF k = 0 THEN Float(0)
            ELSE FAdd(upto[k - 1], IF IsNaN(x[k]) THEN Float(0) ELSE x[k])
    IN  upto[Len(x)]

One == [raised |-> "none", scalar |-> TRUE, values |-> <<Float(1)>>]

getWeights(tabs, s, kpi, variant) ==
    IF kpi \notin DOMAIN s.referenceKpis THEN One
    ELSE LET x == getKPIbyNameAndVariant(tabs, s, ReferenceColumn(s.referenceKpis[kpi]), variant)
         IN  IF x.raised # "none" THEN x
             ELSE IF x.scalar
             \* sum(x == 0) over a scalar: the comparison is not iterable
             THEN [raised |-> "TypeError", scalar |-> FALSE, values |-> <<>>]
             ELSE LET nonZeros == Len(x.values) - CountZerosAndNans(x.values)
                      factor   == FDiv(Float(nonZeros), NanSum(x.values))
                  IN  [raised |-> "none", scalar |-> FALSE,
                       values |-> [i \in DOMAIN x.values |-> FMul(factor, x.values[i])]]

\* series * weight: a scalar weight scales every value
Weighted(x, w) ==
    [i \in DOMAIN x.values |->
        FMul(x.values[i], IF w.scalar THEN w.values[1] ELSE w.values[i])]

(***************************************************************************)
(* delta                                                                   *)
(***************************************************************************)
workerTable == {"fixed_horizon", "group_sequential", "bayes_factor", "bayes_precision"}

Methods == workerTable \cup {"other"}

\* one comparison of the inner loop: the entry stored under result[kpi][variant]
\* the comparison with the control's values left unweighted
DeltaEntryRawControl(tabs, s, kpi, variant) ==
    LET control         == getKPIbyNameAndVariant(tabs, s, kpi, s.controlVariantName)
        controlWeight   == getWeights(tabs, s, kpi, s.controlVariantName)
        treatment       == getKPIbyNameAndVariant(tabs, s, kpi, variant)
        treatmentWeight == getWeights(tabs, s, kpi, variant)
        failed          == SelectSeq(<<control, controlWeight, treatment, treatmentWeight>>,
                                     LAMBDA r : r.raised # "none")
    IN  IF failed # <<>>
        THEN [raised |-> Head(failed).raised]
        ELSE [raised           |-> "none",
              kpi              |-> kpi,
              variant          |-> variant,
              controlVariant   |-> s.controlVariantName,
              treatmentVariant |-> variant,
              x                |-> Weighted(treatment, treatmentWeight),
              y                |-> Weighted(control, One)]

DeltaEntry(tabs, s, kpi, variant) ==
    LET control         == getKPIbyNameAndVariant(tabs, s, kpi, s.controlVariantName)
        controlWeight   == getWeights(tabs, s, kpi, s.controlVariantName)
        treatment       == getKPIbyNameAndVariant(tabs, s, kpi, variant)
        treatmentWeight == getWeights(tabs, s, kpi, variant)
        failed          == SelectSeq(<<control, controlWeight, treatment, treatmentWeight>>,
                                     LAMBDA r : r.raised # "none")
    IN  IF failed # <<>>
        THEN [raised |-> Head(failed).raised]
        ELSE [raised           |-> "none",
              kpi              |-> kpi,
              variant          |-> variant,
              controlVariant   |-> s.controlVariantName,
              treatmentVariant |-> variant,
              x                |-> Weighted(treatment, treatmentWeight),
              y                |-> Weighted(control, controlWeight)]

\* list(set(...)) fixes some order of the variants; the model takes this one
VariantOrder == <<"A", "B", "C">>

VariantList(S) == SelectSeq(VariantOrder, LAMBDA v : v \in S)

\* the pairs a nested loop visits, outer sequence first
Pairs(outer, inner) ==
    [k \in 1..(Len(outer) * Len(inner)) |->
        <<outer[((k - 1) \div Len(inner)) + 1], inner[((k - 1) % Len(inner)) + 1]>>]

\* the (kpi, variant) pairs in the order the loops visit them
DeltaPairs(s) == Pairs(s.reportKpiNames, VariantList(s.variantNames))

\* delta with the method looked up only after the loops have run
delta_late(tabs, s, method) ==
    LET pairs   == DeltaPairs(s)
        entries == [i \in DOMAIN pairs |-> DeltaEntry(tabs, s, pairs[i][1], pairs[i][2])]
        bad     == {i \in DOMAIN pairs : entries[i].raised # "none"}
        early   == s.variantNames = {} /\ s.reportKpiNames # <<>>
    IN  IF early
        THEN [raised |-> "KeyError", entries |-> <<>>, worker |-> method, workerCalls |-> 0]
        ELSE IF bad # {}
        THEN LET k == CHOOSE i \in bad : \A j \in bad : i <= j
             IN  [raised |-> entries[k].raised, entries |-> <<>>,
                  worker |-> method, workerCalls |-> k - 1]
        ELSE IF method \notin workerTable
        THEN [raised |-> "NotImplementedError", entries |-> <<>>,
              worker |-> method, workerCalls |-> Len(pairs)]
        ELSE [raised |-> "none", entries |-> entries,
              worker |-> method, workerCalls |-> Len(pairs)]

\* worker is the worker built at line 104, named by its method ("none": not built)
delta(tabs, s, method) ==
    IF method \notin workerTable
    THEN [raised |-> "NotImplementedError", entries |-> <<>>,
          worker |-> "none", workerCalls |-> 0]
    ELSE LET pairs   == DeltaPairs(s)
             entries == [i \in DOMAIN pairs |-> DeltaEntry(tabs, s, pairs[i][1], pairs[i][2])]
             bad     == {i \in DOMAIN pairs : entries[i].raised # "none"}
             \* a variant-less control raises before the inner loop is entered
             early   == s.variantNames = {} /\ s.reportKpiNames # <<>>
         IN  IF early
             THEN [raised |-> "KeyError", entries |-> <<>>,
                   worker |-> method, workerCalls |-> 0]
             ELSE IF bad # {}
             THEN LET k == CHOOSE i \in bad : \A j \in bad : i <= j
                  IN  [raised |-> entries[k].raised, entries |-> <<>>,
                       worker |-> method, workerCalls |-> k - 1]
             ELSE [raised |-> "none", entries |-> entries,
                   worker |-> method, workerCalls |-> Len(pairs)]

(***************************************************************************)
(* Binnings (expan.core.binning) and the delta worker                      *)
(* (expan.core.statistics), by their contracts.                            *)
(***************************************************************************)
\* np.unique: the distinct values, ascending
NpUnique(col) == SortSeq(Unique(col), LAMBDA x, y : x < y)

\* NumericalBinning(uppers=points, lowers=points, closed on both ends)
NumericalBinning(points) ==
    [kind |-> "numerical", bins |-> [i \in DOMAIN points |-> [lo |-> points[i], up |-> points[i]]]]

CategoricalBinning(col) ==
    [kind |-> "categorical", bins |-> [i \in DOMAIN Unique(col) |->
                                          [lo |-> Unique(col)[i], up |-> Unique(col)[i]]]]

\* create_binning(x, nbins): at most nbins bins of equal size over the
\* distinct values of a numeric column
create_binning(col, nbins) ==
    LET sv   == NpUnique(col)
        m    == Len(sv)
        k    == IF m < nbins THEN m ELSE nbins
        lo(i) == ((i - 1) * m) \div k + 1
        up(i) == (i * m) \div k
    IN  [kind |-> "numerical", bins |-> [i \in 1..k |-> [lo |-> sv[lo(i)], up |-> sv[up(i)]]]]

BinOf(binning, v) ==
    LET hits == {i \in DOMAIN binning.bins :
                    IF binning.kind = "numerical"
                    THEN binning.bins[i].lo <= v /\ v <= binning.bins[i].up
                    ELSE binning.bins[i].lo = v}
    IN  binning.bins[CHOOSE i \in hits : \A j \in hits : i <= j]

\* binning.label(data, format_str): a category is its own label; for a
\* numerical bin '{mid}' is the midpoint, its ordering key, and '{standard}'
\* the interval
Label(binning, v, format_str) ==
    LET b == BinOf(binning, v)
    IN  IF binning.kind # "numerical" THEN b.lo
        ELSE IF format_str = "{mid}" THEN (b.lo + b.up) \div 2
        ELSE <<b.lo, b.up>>

\* the statistics delta_to_dataframe_all_variants lays out, one row each
\* the point estimate of a deterministic worker that does not resample:
\* the difference of the sample means, in float arithmetic
Mean(x) ==
    LET upto[k \in 0..Len(x)] ==
            IF k = 0 THEN Float(0) ELSE FAdd(upto[k - 1], x[k])
    IN  FDiv(upto[Len(x)], Float(Len(x)))

Estimate(x, y) == FAdd(Mean(x), FMul(Float(-1), Mean(y)))

Statistics == <<"uplift", "sample_size">>

(***************************************************************************)
(* The shared binned-delta engine.                                         *)
(***************************************************************************)
n_bins == 4

TmpBin == "_tmp_bin_"

DropColumn(t, name) == [n |-> t.n, c |-> [x \in Cols(t) \ {name} |-> t.c[x]]]

\* frame[[columns]] of a reset_index(): a new frame of the named columns
Project(tabs, ref, columns) ==
    [tabs EXCEPT !["df"] = [n |-> tabs[ref].n, c |-> [x \in Range(columns) |-> tabs[ref].c[x]]]]

\* df[df['_tmp_bin_'] == bin] or, cumulative, df[df['_tmp_bin_'] <= bin]:
\* the row numbers of the frame that the bin takes
BinRows(labels, bin, cumulative) ==
    SelectSeq(Positions(labels),
              LAMBDA k : IF cumulative THEN labels[k] <= bin ELSE labels[k] = bin)

\* the mutant: a cumulative bin takes its own rows only
BinRowsOwn(labels, bin, cumulative) == BinRows(labels, bin, FALSE)

SelectRows(labels, bin, cumulative) == BinRows(labels, bin, cumulative)

\* f['variant'].unique(): the variants do_delta compares within the rows f,
\* whatever the nominal pair in variants says
DeltaVariants(f, df, variants) == Unique([i \in DOMAIN f |-> df.c["variant"][f[i]]])

\* do_delta(f, bin_name): every variant found in the rows f against the
\* baseline rows of f
do_delta(df, f, bin_name, variants, metric) ==
    LET baseline_metric == SelectSeq(f, LAMBDA i : df.c["variant"][i] = variants[2])
        vs == DeltaVariants(f, df, variants)
    IN  Concat([j \in DOMAIN vs |->
                  LET v_metric == SelectSeq(f, LAMBDA i : df.c["variant"][i] = vs[j])
                  IN  [q \in DOMAIN Statistics |->
                         [variant         |-> vs[j],
                          bin             |-> bin_name,
                          metric          |-> metric,
                          subgroup_metric |-> "-",
                          subgroup        |-> "-",
                          statistic       |-> Statistics[q],
                          pctile          |-> "-",
                          xs              |-> Range(v_metric),
                          ys              |-> Range(baseline_metric)]]])

\* the frame with the label column, and the loop over its bins
BinnedLabels(df, feature, binning, label_format_str) ==
    [i \in 1..df.n |-> Label(binning, df.c[feature][i], label_format_str)]

BinnedLoop(df, labels, variants, cumulative, metric) ==
    LET unique_tmp_bins == Unique(labels)
    IN  Concat([b \in DOMAIN unique_tmp_bins |->
                  do_delta(df, SelectRows(labels, unique_tmp_bins[b], cumulative),
                           unique_tmp_bins[b], variants, metric)])

\* the comparisons behind a result: the worker ran once for every
\* Len(Statistics) rows
WorkerCalls(rows) == Len(rows) \div Len(Statistics)

BinningArg(df, feature, nbins, binning) ==
    IF binning.kind = "none" THEN create_binning(df.c[feature], nbins) ELSE binning

\* the labelling, the loop over the bins and the clean-up of the frame
BinnedRun(tabs, feature, metric, variants, b, cumulative, label_format_str) ==
    LET df      == tabs["df"]
        labels  == BinnedLabels(df, feature, b, label_format_str)
        labeled == SetColumn(df, TmpBin, labels)
        rows    == BinnedLoop(labeled, labels, variants, cumulative, metric)
    IN  \* result.unstack(0) turns the variant level of the result into columns;
        \* the table is kept here in long form, one row per computed cell.
        \* del df['_tmp_bin_'] leaves the frame as it was handed in
        [raised |-> "none", tables |-> [tabs EXCEPT !["df"] = DropColumn(labeled, TmpBin)],
         rows |-> rows, binning |-> b, workerCalls |-> WorkerCalls(rows)]

\* the mutant: the binning is checked after the labels are assigned
binned_deltas_late(tabs, feature, metric, variants, nbins, binning, cumulative, label_format_str) ==
    LET df == tabs["df"]
        b  == BinningArg(df, feature, nbins, binning)
    IN  IF cumulative /\ b.kind # "numerical"
        THEN [raised |-> "ValueError",
              tables |-> [tabs EXCEPT !["df"] =
                            SetColumn(df, TmpBin, BinnedLabels(df, feature, b, label_format_str))],
              rows |-> <<>>, binning |-> b, workerCalls |-> 0]
        ELSE BinnedRun(tabs, feature, metric, variants, b, cumulative, label_format_str)

\* _binned_deltas on the frame tables["df"], whose columns are the variant,
\* the binned feature and the metric
binned_deltas(tabs, feature, metric, variants, nbins, binning, cumulative, label_format_str) ==
    LET df == tabs["df"]
        b  == BinningArg(df, feature, nbins, binning)
    IN  IF cumulative /\ b.kind # "numerical"
        THEN [raised |-> "ValueError", tables |-> tabs,
              rows |-> <<>>, binning |-> b, workerCalls |-> 0]
        ELSE BinnedRun(tabs, feature, metric, variants, b, cumulative, label_format_str)

(***************************************************************************)
(* sga and trend.  The attributes of the experiment data they read are     *)
(* those of the stored table.                                              *)
(***************************************************************************)
NoBinning == [kind |-> "none", bins |-> <<>>]

kpi_names(s) == s.reportKpiNames

variant_names(s) == s.variantNames

baseline_variant(s) == s.controlVariantName

\* self.metrics and self.kpis_time are None for a data set without rows
IsNone(tabs, s) == tabs[s.data].n = 0

\* _subgroup_deltas: the engine without a preset binning, then the
\* index is renamed: the bin is the subgroup, the feature the subgroup metric
subgroup_deltas(tabs, feature, metric, variants, nbins) ==
    LET r == binned_deltas(tabs, feature, metric, variants, nbins, NoBinning, FALSE, "{standard}")
    IN  [r EXCEPT !.rows = [i \in DOMAIN r.rows |->
                              [r.rows[i] EXCEPT !.subgroup = r.rows[i].bin,
                                                !.subgroup_metric = feature]]]

\* _time_dependent_deltas: one closed bin per observed time point
time_dependent_deltas(tabs, feature, metric, variants, cumulative) ==
    LET tpoints == NpUnique(tabs["df"].c[feature])
    IN  binned_deltas(tabs, feature, metric, variants, n_bins,
                      NumericalBinning(tpoints), cumulative, "{mid}")

Start(tabs) ==
    [raised |-> "none", tables |-> tabs, rows |-> <<>>, warnings |-> {},
     binning |-> NoBinning, workerCalls |-> 0]

\* the loop over the engine calls, one per pair: every call's rows are
\* appended to the result, and an exception ends the loop
Gather(tabs, per) ==
    LET upto[k \in 0..Len(per)] ==
            IF k = 0 THEN Start(tabs)
            ELSE LET prev == upto[k - 1]
                     r    == per[k]
                 IN  IF prev.raised # "none" THEN prev
                     ELSE IF r.raised # "none"
                     THEN [Start(r.tables) EXCEPT !.raised = r.raised]
                     ELSE [raised |-> "none", tables |-> r.tables,
                           rows |-> prev.rows \o r.rows, warnings |-> {},
                           binning |-> r.binning,
                           workerCalls |-> prev.workerCalls + r.workerCalls]
    IN  upto[Len(per)]

sga(tabs, s, feature_subset, nbins) ==
    IF IsNone(tabs, s) THEN Start(tabs)
    ELSE LET pairs == Pairs(kpi_names(s), feature_subset)
         IN  \* self.metrics.reset_index()[['variant', feature, kpi]]
             IF \E f \in Range(feature_subset) : f \notin Cols(tabs[s.data])
             THEN [Start(tabs) EXCEPT !.raised = "KeyError"]
             ELSE [Gather(tabs, [i \in DOMAIN pairs |->
                      subgroup_deltas(Project(tabs, s.data, <<"variant", pairs[i][2], pairs[i][1]>>),
                                      pairs[i][2], pairs[i][1],
                                      <<"dummy", baseline_variant(s)>>, nbins)])
                   EXCEPT !.binning = NoBinning]

\* the mutant: the warning is filed under the bare method name
WarningKeyShort == "trend"

\* res.metadata['warnings']['Experiment.trend']
WarningKey == "Experiment.trend"

trend(tabs, s, cumulative) ==
    IF IsNone(tabs, s) \/ "time_since_treatment" \notin Cols(tabs[s.data])
    THEN [Start(tabs) EXCEPT !.warnings = {WarningKey}]
    ELSE LET variant_subset == variant_names(s) \ {baseline_variant(s)}
             pairs == Pairs(kpi_names(s), VariantList(variant_subset))
         IN  \* res.set_binning(res_obj.binning): res_obj is unbound when the
             \* loops ran no iteration
             IF Len(pairs) = 0 THEN [Start(tabs) EXCEPT !.raised = "UnboundLocalError"]
             ELSE Gather(tabs, [i \in DOMAIN pairs |->
                      time_dependent_deltas(
                          Project(tabs, s.data, <<"variant", "time_since_treatment", pairs[i][1]>>),
                          "time_since_treatment", pairs[i][1],
                          <<pairs[i][2], baseline_variant(s)>>, cumulative)])

(***************************************************************************)
(* The state machine.                                                      *)
(***************************************************************************)
Init ==
    \E n \in 0..MaxRows, tp \in TimePatterns, cols \in ColumnChoices, dk \in DerivedConfigs :
      \E vs \in VariantColumns(n) :
        /\ tables = [id \in TableIds |->
                        IF id = "input" THEN MakeInput(n, vs, tp, cols) ELSE NoTable]
        /\ input0 = MakeInput(n, vs, tp, cols)
        /\ args = MakeArgs(dk)
        /\ self = NoObject
        /\ self0 = [obj |-> NoObject, data |-> NoTable]
        /\ pc = "new"
        /\ last = NoCall
        /\ res = NoResult

\* Experiment(controlVariantName, data, metadata, reportKpiNames, derivedKpis)
Construct ==
    /\ pc = "new"
    /\ LET s == ExperimentInit(tables, args)
       IN  /\ tables' = s.tables
           /\ self' = s.self
           /\ self0' = [obj |-> s.self,
                        data |-> IF s.raised = "none" THEN s.tables[s.self.data] ELSE NoTable]
           /\ pc' = IF s.raised = "none" THEN "ready" ELSE "failed"
           /\ last' = IF s.raised = "none" THEN NoCall
                       ELSE [op |-> "__init__", raised |-> s.raised, args |-> "-"]
    /\ UNCHANGED <<input0, args, res>>

NoArgs == [method |-> "-", cumulative |-> FALSE, features |-> <<>>, binning |-> "-"]

Call(op, raised, a) == [op |-> op, raised |-> raised, args |-> a]

\* experiment.delta(method)
Delta ==
    /\ pc = "ready"
    /\ \E method \in Methods :
         LET r == delta(tables, self, method)
         IN  /\ last' = Call("delta", r.raised, [NoArgs EXCEPT !.method = method])
             /\ res' = [rows |-> <<>>, entries |-> r.entries, warnings |-> {},
                        binning |-> NoBinning, workerCalls |-> r.workerCalls,
                        worker |-> r.worker]
    /\ pc' = "called"
    /\ UNCHANGED <<tables, input0, args, self, self0>>

FeatureSubsets == {<<"entity">>, <<"time_since_treatment", "entity">>}

Outcome(r) ==
    [rows |-> r.rows, entries |-> <<>>, warnings |-> r.warnings,
     binning |-> r.binning, workerCalls |-> r.workerCalls]

\* experiment.sga(feature_subset)
Sga ==
    /\ pc = "ready"
    /\ \E fs \in FeatureSubsets :
         LET r == sga(tables, self, fs, n_bins)
         IN  /\ last' = Call("sga", r.raised, [NoArgs EXCEPT !.features = fs])
             /\ res' = Outcome(r)
             /\ tables' = r.tables
    /\ pc' = "called"
    /\ UNCHANGED <<input0, args, self, self0>>

\* experiment.trend(cumulative)
Trend ==
    /\ pc = "ready"
    /\ \E cumulative \in BOOLEAN :
         LET r == trend(tables, self, cumulative)
         IN  /\ last' = Call("trend", r.raised, [NoArgs EXCEPT !.cumulative = cumulative])
             /\ res' = Outcome(r)
             /\ tables' = r.tables
    /\ pc' = "called"
    /\ UNCHANGED <<input0, args, self, self0>>

BinningKinds == {"numerical", "categorical"}

PresetBinning(kind, col) ==
    IF kind = "numerical" THEN NumericalBinning(NpUnique(col)) ELSE CategoricalBinning(col)

\* experiment._binned_deltas(df, variants, binning, cumulative) on the
\* projection (variant, time_since_treatment, a) of a data set with rows
BinnedDeltas ==
    /\ pc = "ready"
    /\ tables[self.data].n > 0
    /\ "time_since_treatment" \in Cols(tables[self.data])
    /\ \E kind \in BinningKinds, cumulative \in BOOLEAN :
         LET tabs == Project(tables, self.data, <<"variant", "time_since_treatment", "a">>)
             r == binned_deltas(tabs, "time_since_treatment", "a",
                                <<"dummy", baseline_variant(self)>>, n_bins,
                                PresetBinning(kind, tabs["df"].c["time_since_treatment"]),
                                cumulative, "{mid}")
         IN  /\ last' = Call("_binned_deltas", r.raised,
                             [NoArgs EXCEPT !.cumulative = cumulative, !.binning = kind])
             /\ res' = [rows |-> r.rows, entries |-> <<>>, warnings |-> {},
                        binning |-> r.binning, workerCalls |-> r.workerCalls]
             /\ tables' = r.tables
    /\ pc' = "called"
    /\ UNCHANGED <<input0, args, self, self0>>

\* the caller drops the result (or the exception) of the call and the
\* call's frame, and may call again
Collect ==
    /\ pc = "called"
    /\ pc' = "ready"
    /\ last' = NoCall
    /\ res' = NoResult
    /\ tables' = [tables EXCEPT !["df"] = NoTable]
    /\ UNCHANGED <<input0, args, self, self0>>

Next == Construct \/ Delta \/ Sga \/ Trend \/ BinnedDeltas \/ Collect

Spec == Init /\ [][Next]_vars

(***************************************************************************)
(* The properties of the experiment, one group per claim.                  *)
(***************************************************************************)
Constructed == pc \in {"ready", "called"}

Returned(op) == pc = "called" /\ last.op = op /\ last.raised = "none"

StoredData == tables[self.data]

\* the key of a row of a result table
Key(row) == <<row.variant, row.bin, row.metric, row.subgroup_metric,
              row.subgroup, row.statistic, row.pctile>>

\* C1: a constructor call on a table that lacks a required column raises the
\* missing-column error with no field of the object assigned, no copy of the
\* table taken, no derived column computed and the caller's table unchanged.
C1_MissingColumnRaisesFirst ==
    (pc # "new" /\ requiredColumnNames(args) \ Cols(input0) # {})
        => /\ pc = "failed"
           /\ last = [op |-> "__init__", raised |-> "ValueError", args |-> "-"]
           /\ self.assigned = {}
           /\ self = NoObject
           /\ tables["data"] = NoTable
           /\ tables["input"] = input0

\* C1, its case: the constructor has raised on a table without the raw column b
\* that a formula names
C1_Witness ==
    /\ pc = "failed"
    /\ input0.n > 0
    /\ "b" \in requiredColumnNames(args) \ Cols(input0)

\* C2: no row of the table sga returns has the control variant as its
\* compared variant.
C2_SgaExcludesControl ==
    Returned("sga")
        => \A i \in DOMAIN res.rows : res.rows[i].variant # self.controlVariantName

\* C3: no key (variant, bin, metric, subgroup_metric, subgroup, statistic,
\* pctile) occurs twice in the table a trend or sga call assembles.
C3_KeysUnique ==
    (Returned("sga") \/ Returned("trend"))
        => \A i, j \in DOMAIN res.rows :
              Key(res.rows[i]) = Key(res.rows[j]) => i = j

\* the rows of the stored data of variant v observed up to time t
RowsUpToTime(v, t) ==
    {k \in 1..StoredData.n :
        /\ StoredData.c["variant"][k] = v
        /\ StoredData.c["time_since_treatment"][k] <= t}

LatestTime == CHOOSE t \in Range(StoredData.c["time_since_treatment"]) :
                 \A u \in Range(StoredData.c["time_since_treatment"]) : u <= t

\* C4: in a cumulative trend the samples compared at a time bin are, for the
\* variant and for the baseline, all the rows with time <= the bin, whatever
\* the order of the rows; so the sample size of a variant does not decrease
\* along increasing bins and at the latest bin it is the row count of the
\* variant.
C4_CumulativeTrendSubsets ==
    (Returned("trend") /\ last.args.cumulative)
        => \A i \in DOMAIN res.rows :
              LET r == res.rows[i]
              IN  /\ r.xs = RowsUpToTime(r.variant, r.bin)
                  /\ r.ys = RowsUpToTime(self.controlVariantName, r.bin)
                  /\ \A j \in DOMAIN res.rows :
                        (res.rows[j].variant = r.variant /\ res.rows[j].bin <= r.bin)
                            => Cardinality(res.rows[j].xs) <= Cardinality(r.xs)
                  /\ r.bin = LatestTime
                        => Cardinality(r.xs) =
                              Cardinality({k \in 1..StoredData.n :
                                              StoredData.c["variant"][k] = r.variant})

\* C4, its case: a cumulative trend over rows whose times do not ascend has
\* compared a sample gathered from more than one time point
C4_Witness ==
    /\ Returned("trend")
    /\ last.args.cumulative
    /\ res.rows # <<>>
    /\ \E k \in 1..(StoredData.n - 1) :
          StoredData.c["time_since_treatment"][k] > StoredData.c["time_since_treatment"][k + 1]
    /\ \E i \in DOMAIN res.rows :
          /\ Cardinality(res.rows[i].xs) >= 2
          /\ \E k \in res.rows[i].xs : StoredData.c["time_since_treatment"][k] < res.rows[i].bin

NoTimeOrEmpty == StoredData.n = 0 \/ "time_since_treatment" \notin Cols(StoredData)

\* C5, as amended: trend on a data set without rows or without the column
\* time_since_treatment does not raise; it returns an empty table, runs no
\* comparison and records a warning under the key Experiment.trend.
C5_TrendWithoutTimeWarns ==
    (pc = "called" /\ last.op = "trend" /\ NoTimeOrEmpty)
        => /\ last.raised = "none"
           /\ res.rows = <<>>
           /\ res.workerCalls = 0
           /\ res.warnings = {"Experiment.trend"}

\* C5, as stated: the warning is recorded under the key trend.
C5_WarningUnderKeyTrend ==
    (pc = "called" /\ last.op = "trend" /\ NoTimeOrEmpty)
        => /\ last.raised = "none"
           /\ res.rows = <<>>
           /\ res.workerCalls = 0
           /\ "trend" \in res.warnings

\* C5, its case: trend has been called on a data set with rows and without
\* the time column
C5_Witness ==
    /\ pc = "called"
    /\ last.op = "trend"
    /\ StoredData.n > 0
    /\ "time_since_treatment" \notin Cols(StoredData)
    /\ res.warnings # {}

\* a formula of the shape numerator/denominator
IsRatio(formula) == Len(formula) = 3 /\ formula[2] = "/"

\* C6, as amended: the reference KPI recorded for a derived KPI
\* numerator/denominator is the right-hand operand, the denominator.
C6_ReferenceIsDenominator ==
    Constructed
        => \A i \in DOMAIN self.derivedKpis :
              LET k == self.derivedKpis[i]
              IN  IsRatio(k.formula) => self.referenceKpis[k.name] = <<k.formula[3]>>

\* C6, as stated: the reference KPI recorded for a derived KPI
\* numerator/denominator is the left-hand operand, the numerator.
C6_ReferenceIsNumerator ==
    Constructed
        => \A i \in DOMAIN self.derivedKpis :
              LET k == self.derivedKpis[i]
              IN  IsRatio(k.formula) => self.referenceKpis[k.name] = <<k.formula[1]>>

\* C6, its case: an experiment with the derived KPI d1 = a/b is constructed
C6_Witness ==
    /\ Constructed
    /\ StoredData.n > 0
    /\ \E i \in DOMAIN self.derivedKpis :
          /\ self.derivedKpis[i].formula = <<"a", "/", "b">>
          /\ self.derivedKpis[i].name \in DOMAIN self.referenceKpis

\* the KPIs that have no reference KPI: the raw ones and the derived ones
\* whose formula is no ratio
HasNoReference(kpi) ==
    \A i \in DOMAIN self.derivedKpis :
        self.derivedKpis[i].name = kpi => ~IsRatio(self.derivedKpis[i].formula)

\* C7: for every reported KPI without a reference KPI, raw or derived, the
\* weight of every variant is 1.0.
C7_NoReferenceWeightOne ==
    Constructed
        => \A i \in DOMAIN self.reportKpiNames : \A v \in self.variantNames :
              HasNoReference(self.reportKpiNames[i])
                  => getWeights(tables, self, self.reportKpiNames[i], v) = One

\* the columns a caller has to provide: the reported KPIs, entity, variant
\* and the names in the formulas, less the derived KPIs
RawRequired(a) ==
    ((Range(a.reportKpiNames) \cup {"entity", "variant"})
        \cup UNION {FindNames(f) : f \in Range(derivedKpiFormulas(a.derivedKpis))})
    \ Range(derivedKpiNames(a.derivedKpis))

NamesEarlier(derivedKpis) ==
    \E i, j \in DOMAIN derivedKpis :
        i < j /\ derivedKpis[i].name \in FindNames(derivedKpis[j].formula)

\* C8: on a table with every raw column and no derived column, constructing an
\* experiment whose later derived KPI names an earlier one succeeds, and every
\* derived column holds its formula evaluated over the stored columns.
C8_LaterNamesEarlierSucceeds ==
    (/\ pc # "new"
     /\ NamesEarlier(args.derivedKpis)
     /\ RawRequired(args) \subseteq Cols(input0)
     /\ Cols(input0) \cap Range(derivedKpiNames(args.derivedKpis)) = {})
        => /\ pc # "failed"
           /\ \A i \in DOMAIN args.derivedKpis :
                 StoredData.c[args.derivedKpis[i].name]
                     = EvalFormula(args.derivedKpis[i].formula, StoredData)

\* the frame a call of the engine was handed
FrameIn == Project(tables, self.data, <<"variant", "time_since_treatment", "a">>)["df"]

\* C9: the engine called with cumulative = True and a binning that is not
\* numerical raises the configuration error with no label assigned, no
\* comparison run, no result and the frame it was handed unchanged.
C9_CumulativeNeedsNumerical ==
    (/\ pc = "called"
     /\ last.op = "_binned_deltas"
     /\ last.args.cumulative
     /\ last.args.binning # "numerical")
        => /\ last.raised = "ValueError"
           /\ res.rows = <<>>
           /\ res.workerCalls = 0
           /\ TmpBin \notin Cols(tables["df"])
           /\ tables["df"] = FrameIn

\* C9, its case: the engine has been called with cumulative = True and a
\* categorical binning on a frame with rows
C9_Witness ==
    /\ pc = "called"
    /\ last.op = "_binned_deltas"
    /\ last.args.cumulative
    /\ last.args.binning = "categorical"
    /\ tables["df"].n > 0

\* C10: after construction and after every analysis call, returned or raised,
\* the stored table, the variant list, the control variant and the reference
\* map are what construction made them, the stored table holds no temporary
\* bin column, and the caller's table is what the caller handed in.
C10_CallsLeaveExperimentAlone ==
    /\ tables["input"] = input0
    /\ Constructed
          => /\ self = self0.obj
             /\ StoredData = self0.data
             /\ TmpBin \notin Cols(StoredData)

\* C10, its case: the engine has labelled a projection of the stored table
\* of an experiment whose construction added a derived column, and the call
\* has returned rows
C10_Witness ==
    /\ Returned("sga")
    /\ DOMAIN self.referenceKpis # {}
    /\ res.rows # <<>>

KnownMethods == {"fixed_horizon", "group_sequential", "bayes_factor", "bayes_precision"}

\* a call of delta with a known method on data in which the control has rows
DeltaCalled ==
    /\ pc = "called"
    /\ last.op = "delta"
    /\ last.args.method \in KnownMethods
    /\ self.controlVariantName \in self.variantNames

\* C11: delta with a known method returns a result with exactly one entry for
\* every pair of a reported KPI and a variant found in the data, the control
\* included; the entry names the control and the variant and holds the
\* comparison of the variant's weighted values x with the control's weighted
\* values y.
C11_DeltaOneEntryPerPair ==
    DeltaCalled
        => /\ last.raised = "none"
           /\ Len(res.entries) = Len(self.reportKpiNames) * Cardinality(self.variantNames)
           /\ \A k \in DOMAIN self.reportKpiNames : \A v \in self.variantNames :
                 \E i \in DOMAIN res.entries :
                    LET e   == res.entries[i]
                        kpi == self.reportKpiNames[k]
                    IN  /\ e.kpi = kpi
                        /\ e.variant = v
                        /\ e.controlVariant = self.controlVariantName
                        /\ e.treatmentVariant = v
                        /\ e.x = Weighted(getKPIbyNameAndVariant(tables, self, kpi, v),
                                          getWeights(tables, self, kpi, v))
                        /\ e.y = Weighted(getKPIbyNameAndVariant(tables, self, kpi, self.controlVariantName),
                                          getWeights(tables, self, kpi, self.controlVariantName))

\* the entries of a returned delta that compare the control with itself
ControlEntries ==
    IF pc = "called" /\ last.op = "delta" /\ last.raised = "none"
    THEN {i \in DOMAIN res.entries : res.entries[i].variant = self.controlVariantName}
    ELSE {}

Finite(x) == \A i \in DOMAIN x : x[i].d # 0

\* C12 (as stated): in delta the control compared with itself hands the worker
\* identical samples x and y for every reported KPI, weighted or not, so that
\* a worker estimating mean(x) - mean(y) returns 0.
C12_ControlSelfEstimateZero ==
    \A i \in ControlEntries :
        /\ res.entries[i].x = res.entries[i].y
        /\ Estimate(res.entries[i].x, res.entries[i].y) = Float(0)

\* C12 (amended): in delta the control compared with itself hands the worker
\* identical samples x and y for every reported KPI, weighted or not; a worker
\* estimating mean(x) - mean(y) returns 0 when every sample is finite, and NaN
\* when a sample is infinite or NaN.
C12_ControlSelfIdentical ==
    \A i \in ControlEntries :
        LET e == res.entries[i]
        IN  /\ e.x = e.y
            /\ Finite(e.x) => Estimate(e.x, e.y) = Float(0)
            /\ ~Finite(e.x) => IsNaN(Estimate(e.x, e.y))

\* the control of two rows compared with itself on a weighted ratio KPI whose
\* weights differ from 1
C12_Witness ==
    \E i \in ControlEntries :
        LET e == res.entries[i]
        IN  /\ e.kpi \in DOMAIN self.referenceKpis
            /\ Len(e.x) >= 2
            /\ Finite(e.x)
            /\ e.x # getKPIbyNameAndVariant(tables, self, e.kpi, self.controlVariantName).values
            /\ Estimate(e.x, e.y) = Float(0)

\* C13: delta called with a method name outside fixed_horizon,
\* group_sequential, bayes_factor and bayes_precision fails with
\* NotImplementedError before a worker is built and before a comparison is
\* run, and returns no result; called with one of the four names it does not
\* raise NotImplementedError.
C13_UnknownMethodNotImplemented ==
    (pc = "called" /\ last.op = "delta")
        => /\ last.args.method \notin KnownMethods
                => /\ last.raised = "NotImplementedError"
                   /\ res.worker = "none"
                   /\ res.workerCalls = 0
                   /\ res.entries = <<>>
           /\ last.args.method \in KnownMethods
                => /\ last.raised # "NotImplementedError"
                   /\ res.worker = last.args.method

\* an unknown method on an experiment whose delta would otherwise have run
\* comparisons and returned entries
C13_Witness ==
    /\ pc = "called"
    /\ last.op = "delta"
    /\ last.args.method \notin KnownMethods
    /\ last.raised = "NotImplementedError"
    /\ delta(tables, self, "fixed_horizon").raised = "none"
    /\ Len(delta(tables, self, "fixed_horizon").entries) >= 2

=============================================================================
